---- MODULE Spec2Model ----
(***************************************************************************)
(* ClawServant: provider fallback (providers.py), tool-call parser and the *)
(* think() orchestration loop (clawservant.py).                            *)
(*                                                                         *)
(* Texts (model replies, prompts, return values) are sequences of tokens;  *)
(* a token is a piece of text that the code never looks inside, except     *)
(* through json.loads and the `in` operator, which are modelled below.     *)
(***************************************************************************)
EXTENDS Integers, Sequences, FiniteSets, TLC

\* ------------------------------------------------------------------ bounds
MaxOrder == 3          \* longest fallback_order drawn in ProvInit
MaxSegs == 3           \* most segments of a text handed to the parser
MaxToolIter == 2       \* largest max_tool_iterations argument of think()
MaxEntries == 2        \* most calls of Memory.add before the store is reloaded
MaxIterations == 3     \* largest max_iterations argument of process_task_with_loop
MaxChain == 1          \* most tool batches the model asks for in one think() of a task run

\* ------------------------------------------------------------ text tokens
OPEN == "<tool>"
CLOSE == "</tool>"
Whitespace == {" ", "\n"}

CallA == "{\"tool\":\"file-io\",\"params\":{\"action\":\"read\"}}"
CallB == "{\"tool\":\"shell-exec\",\"params\":{\"command\":\"ls\"}}"
ParamsNum == "{\"tool\":\"file-io\",\"params\":5}"
NoParams == "{\"tool\":\"file-io\"}"
NoTool == "{\"params\":{}}"
JNum == "5"
JNull == "null"
JStrBoth == "\"tool params\""
JListBoth == "[\"tool\",\"params\"]"
JList == "[1]"
Truncated == "{\"tool\":"
Prose == "prose"

\* The texts json.loads accepts as one JSON value.
JsonTexts == {CallA, CallB, ParamsNum, NoParams, NoTool, JNum, JNull, JStrBoth, JListBoth, JList}

\* A decoded JSON value: its Python type, what `x in value` ranges over (the
\* keys of a dict, the elements of a list, the substrings of interest of a
\* str), and the two entries think() reads from a dict.
JsonValue(tok) ==
    CASE tok = CallA -> [type |-> "dict", members |-> {"tool", "params"}, tool |-> "file-io", params |-> "action=read", mapping |-> TRUE]
      [] tok = CallB -> [type |-> "dict", members |-> {"tool", "params"}, tool |-> "shell-exec", params |-> "command=ls", mapping |-> TRUE]
      [] tok = ParamsNum -> [type |-> "dict", members |-> {"tool", "params"}, tool |-> "file-io", params |-> "5", mapping |-> FALSE]
      [] tok = NoParams -> [type |-> "dict", members |-> {"tool"}, tool |-> "file-io", params |-> "", mapping |-> FALSE]
      [] tok = NoTool -> [type |-> "dict", members |-> {"params"}, tool |-> "", params |-> "", mapping |-> TRUE]
      [] tok = JNum -> [type |-> "int", members |-> {}, tool |-> "", params |-> "", mapping |-> FALSE]
      [] tok = JNull -> [type |-> "NoneType", members |-> {}, tool |-> "", params |-> "", mapping |-> FALSE]
      [] tok = JStrBoth -> [type |-> "str", members |-> {"tool", "params", " "}, tool |-> "", params |-> "", mapping |-> FALSE]
      [] tok = JListBoth -> [type |-> "list", members |-> {"tool", "params"}, tool |-> "", params |-> "", mapping |-> FALSE]
      [] OTHER -> [type |-> "list", members |-> {"1"}, tool |-> "", params |-> "", mapping |-> FALSE]

NoValue == [type |-> "none", members |-> {}, tool |-> "", params |-> "", mapping |-> FALSE]

\* str.strip(): leading and trailing whitespace removed.
RECURSIVE StripLeft(_)
StripLeft(s) ==
    IF s /= <<>> /\ Head(s) \in Whitespace THEN StripLeft(Tail(s)) ELSE s

RECURSIVE StripRight(_)
StripRight(s) ==
    IF s /= <<>> /\ s[Len(s)] \in Whitespace THEN StripRight(SubSeq(s, 1, Len(s) - 1)) ELSE s

Strip(s) == StripRight(StripLeft(s))

\* json.loads: exactly one JSON value, or JSONDecodeError (empty text, prose,
\* a truncated object, a tag inside the text, extra data after the value).
JsonLoads(s) ==
    IF Len(s) = 1 /\ s[1] \in JsonTexts
    THEN [ok |-> TRUE, value |-> JsonValue(s[1])]
    ELSE [ok |-> FALSE, value |-> NoValue]

\* Python's `key in value`: TypeError for a value that is not a container.
InRaises(v) == v.type \in {"int", "NoneType", "bool"}
In(key, v) == key \in v.members

\* value['tool']: TypeError unless the value is a dict.
SubscriptRaises(v) == v.type /= "dict"

\* -------------------------------------------------------------- the parser
\* Index of the first occurrence of tok in text at or after i, 0 when none.
RECURSIVE IndexFrom(_, _, _)
IndexFrom(text, tok, i) ==
    IF i > Len(text) THEN 0
    ELSE IF text[i] = tok THEN i
    ELSE IndexFrom(text, tok, i + 1)

\* re.findall(r'<tool>(.*?)</tool>', text, re.DOTALL) from position i on: the
\* leftmost opening tag, up to the nearest closing tag after it, then on.
RECURSIVE FindAll(_, _)
FindAll(text, i) ==
    LET o == IndexFrom(text, OPEN, i)
        c == IF o = 0 THEN 0 ELSE IndexFrom(text, CLOSE, o + 1)
    IN  IF o = 0 \/ c = 0 THEN <<>>
        ELSE <<SubSeq(text, o + 1, c - 1)>> \o FindAll(text, c + 1)

\* Faulty variant of OnDecodeError: a decode error ends the whole extraction.
OnDecodeErrorAbort(acc, rest) == [raised |-> FALSE, calls |-> acc]

\* except json.JSONDecodeError: warn and go on with the next match.
RECURSIVE ExtractFrom(_, _)
OnDecodeError(acc, rest) == ExtractFrom(rest, acc)

\* The for loop of _extract_tool_calls over the matches still to do. A
\* TypeError (`in` on a number, null or boolean; tool_call['tool'] in the
\* debug message on a string or a list) is not caught here.
ExtractFrom(matches, acc) ==
    IF matches = <<>> THEN [raised |-> FALSE, calls |-> acc]
    ELSE LET loaded == JsonLoads(Strip(Head(matches)))
             v == loaded.value
         IN  IF ~loaded.ok THEN OnDecodeError(acc, Tail(matches))
             ELSE IF InRaises(v) THEN [raised |-> TRUE, calls |-> <<>>]
             ELSE IF In("tool", v) /\ In("params", v)
                  THEN IF SubscriptRaises(v)
                       THEN [raised |-> TRUE, calls |-> <<>>]
                       ELSE ExtractFrom(Tail(matches), Append(acc, v))
                  ELSE ExtractFrom(Tail(matches), acc)

\* ClawServant._extract_tool_calls
ExtractToolCalls(text) == ExtractFrom(FindAll(text, 1), <<>>)

\* ------------------------------------------------------- parser: the state
VARIABLES
    p_segs,     \* the pieces the text under test was put together from
    p_text,     \* the text handed to _extract_tool_calls
    p_result    \* its outcome: [state, raised, calls]

pvars == <<p_segs, p_text, p_result>>

Block(content) == <<OPEN>> \o content \o <<CLOSE>>

BlockA == Block(<<CallA>>)
BlockB == Block(<<" ", CallB, "\n">>)
InvalidJsonBlocks == {Block(<<>>), Block(<<Truncated>>), Block(<<Prose, " ">>), Block(<<CallA, CallB>>)}
WrongShapeBlocks == {Block(<<NoParams>>), Block(<<NoTool>>), Block(<<JList>>)}
NonObjectBlocks == {Block(<<JNum>>), Block(<<JNull>>), Block(<<JStrBoth>>), Block(<<JListBoth>>)}
Filler == {<<Prose>>, <<CLOSE>>, <<OPEN>>}

Segments == {BlockA, BlockB} \cup InvalidJsonBlocks \cup WrongShapeBlocks \cup NonObjectBlocks \cup Filler

RECURSIVE Concat(_)
Concat(ss) == IF ss = <<>> THEN <<>> ELSE Head(ss) \o Concat(Tail(ss))

SeqsUpTo(S, n) == UNION {[1..k -> S] : k \in 0..n}

ParseIdle ==
    /\ p_segs = <<>>
    /\ p_text = <<>>
    /\ p_result = [state |-> "none", raised |-> FALSE, calls |-> <<>>]

ParseInit ==
    /\ p_segs \in SeqsUpTo(Segments, MaxSegs)
    /\ p_text = Concat(p_segs)
    /\ p_result = [state |-> "none", raised |-> FALSE, calls |-> <<>>]

\* One call of _extract_tool_calls on the text.
Extract ==
    /\ p_result.state = "none"
    /\ LET r == ExtractToolCalls(p_text)
       IN  p_result' = [state |-> "done", raised |-> r.raised, calls |-> r.calls]
    /\ UNCHANGED <<p_segs, p_text>>

\* ------------------------------------------------------ provider fallback
\* The provider registry.
PROVIDERS == {"bedrock", "anthropic", "openai", "ollama"}
\* Names a credentials file may list in fallback_order: the registry's, and
\* one the registry does not know.
OrderNames == PROVIDERS \cup {"custom"}

None == "None"
Throw == <<"#raise">>
NoProviderError == <<"No LLM providers available.">>

VARIABLES
    fallback_order,   \* config["fallback_order"]
    providers,        \* ProviderManager.providers: the available providers
    active_provider,  \* ProviderManager.active_provider
    call_out,         \* what each provider's call() does in the latest call
    call_ret,         \* what the latest ProviderManager.call did
    retried           \* the providers it attempted that had failed in the call before

mvars == <<fallback_order, providers, active_provider, call_out, call_ret, retried>>

\* Faulty variant of IsTried: the available set is not consulted.
IsTriedAny(name, avail) == name \in PROVIDERS

\* `if provider_name in self.providers`
IsTried(name, avail) == name \in avail

\* Faulty variant of Exhausted: an empty answer instead of the error.
ExhaustedAnswersEmpty(active, attempts) ==
    [raised |-> FALSE, response |-> <<>>, provider |-> active, active |-> active, attempts |-> attempts]

\* raise RuntimeError("No LLM providers available. ...") after the loop
Exhausted(active, attempts) ==
    [raised |-> TRUE, response |-> NoProviderError, provider |-> None, active |-> active, attempts |-> attempts]

\* Faulty variant of OnAnswer: the providers after the answering one are
\* called as well before the answer is returned.
OnAnswerAskRest(fo, i, out, attempts) ==
    [raised |-> FALSE, response |-> out[fo[i]], provider |-> fo[i], active |-> fo[i],
     attempts |-> attempts \o SubSeq(fo, i, Len(fo))]

\* return response, provider_name: the call at position i answered and the
\* for loop is left at once.
OnAnswer(fo, i, out, attempts) ==
    [raised |-> FALSE, response |-> out[fo[i]], provider |-> fo[i], active |-> fo[i],
     attempts |-> Append(attempts, fo[i])]

\* The for loop of ProviderManager.call from position i of the fallback order:
\* out[p] is the text provider p returns, or Throw when its call raises.
RECURSIVE CallFrom(_, _, _, _, _, _)
CallFrom(fo, i, avail, out, active, attempts) ==
    IF i > Len(fo)
    THEN Exhausted(active, attempts)
    ELSE IF IsTried(fo[i], avail)
         THEN IF out[fo[i]] /= Throw
              THEN OnAnswer(fo, i, out, attempts)
              ELSE CallFrom(fo, i + 1, avail, out, fo[i], Append(attempts, fo[i]))
         ELSE CallFrom(fo, i + 1, avail, out, active, attempts)

\* ProviderManager.call
ManagerCall(fo, avail, out, active) == CallFrom(fo, 1, avail, out, active, <<>>)

NoCall == [state |-> "none", raised |-> FALSE, response |-> <<>>, provider |-> None, attempts |-> <<>>]

\* The text provider p answers with when asked directly.
ReplyOf(p) == <<"reply of", p>>

ProvInit ==
    /\ fallback_order \in SeqsUpTo(OrderNames, MaxOrder)
    /\ providers \in SUBSET PROVIDERS
    /\ active_provider = None
    /\ call_out = [p \in PROVIDERS |-> Throw]
    /\ call_ret = NoCall
    /\ retried = {}

\* The registry's providers that the fallback order names.
Named(fo) == {fo[i] : i \in 1..Len(fo)} \cap PROVIDERS

\* Faulty variant of ProvidersAfter: a provider whose call failed is taken
\* out of the available set.
ProvidersAfterDropFailed(avail, out, attempts) ==
    avail \ {attempts[i] : i \in {j \in 1..Len(attempts) : out[attempts[j]] = Throw}}

\* self.providers when call() is over: the except clause only prints a
\* warning and goes on, nothing is taken out.
ProvidersAfter(avail, out, attempts) == avail

\* The providers among attempts that raised in the call recorded by out_before
\* and ret_before.
Retried(attempts, out_before, ret_before) ==
    {attempts[i] : i \in 1..Len(attempts)}
        \cap {ret_before.attempts[i] : i \in {j \in 1..Len(ret_before.attempts) :
                                                   out_before[ret_before.attempts[j]] = Throw}}

\* One ProviderManager.call, each named provider answering or failing as it
\* likes (a provider the order does not name is never asked).
Call ==
    \E failing \in SUBSET Named(fallback_order) :
        LET out == [p \in PROVIDERS |-> IF p \in failing THEN Throw ELSE ReplyOf(p)]
            r == ManagerCall(fallback_order, providers, out, active_provider)
        IN  /\ call_out' = out
            /\ call_ret' = [state |-> "called", raised |-> r.raised, response |-> r.response,
                            provider |-> r.provider, attempts |-> r.attempts]
            /\ active_provider' = r.active
            /\ retried' = Retried(r.attempts, call_out, call_ret)
            /\ providers' = ProvidersAfter(providers, out, r.attempts)
            /\ UNCHANGED fallback_order

\* ------------------------------------------------------------ the agent
RecentN == 5           \* memory.recent(n=5) in think()
PreviewLen == 100      \* mem['content'][:100] in think()

Unbound == <<"#unbound">>
UnboundLocalError == <<"UnboundLocalError: thought">>
TypeError == <<"TypeError">>
ErrorPrefix == "[ERROR] Failed to think: "
UserPrompt == <<"What should you be thinking about right now?">>

VARIABLES
    tool_manager,          \* self.tool_manager is set (TRUE) or None (FALSE)
    memories,              \* Memory.memories
    memory_file,           \* the lines of memory.jsonl
    pc,                    \* where the think() invocation stands
    args,                  \* its arguments: prompt, allow_tools, max_tool_iterations
    system_prompt,         \* the "Recent Memory" part of the system prompt
    current_prompt,        \* think(): current_prompt
    tool_iteration,        \* think(): tool_iteration
    conversation_history,  \* think(): the replies appended to conversation_history
    thought,               \* think(): thought, Unbound until first assigned
    tool_calls,            \* think(): tool_calls of the latest parsed reply
    tool_idx,              \* position of the for loop over tool_calls
    tool_results,          \* think(): tool_results of the running batch
    ret,                   \* how the invocation ended: return value or exception
    llm_calls,             \* provider_manager.call invocations of this think()
    batches,               \* tool batches completed by this think()
    executed,              \* tool calls of the running batch handed to call_tool
    tools_run,             \* call_tool invocations of this think()
    llm_inflight,          \* provider_manager.call awaited and not yet back
    tool_inflight,         \* call_tool awaited and not yet back
    sent,                  \* the prompts handed to the latest provider_manager.call
    batch_mem_start        \* len(Memory.memories) when the running batch began

tvars == <<tool_manager, memories, memory_file, pc, args, system_prompt, current_prompt,
           tool_iteration, conversation_history, thought, tool_calls, tool_idx,
           tool_results, ret, llm_calls, batches, executed, tools_run,
           llm_inflight, tool_inflight, sent, batch_mem_start>>

VARIABLES
    clock,                 \* the wall clock, as read by datetime.now / time.time
    reloaded               \* a second Memory object built from memory.jsonl

svars == <<clock, reloaded>>

VARIABLES
    k_pc,                  \* where process_task_with_loop stands
    k_args,                \* its arguments: task_text, max_iterations
    iteration,             \* its local iteration
    task_id,               \* its local task_id
    task_content,          \* its local content
    result_text,           \* its local result_text
    k_ret,                 \* what it returned or raised
    think_calls,           \* calls of think() it has made
    agent_state,           \* self.state: cycles, tasks_completed
    state_file,            \* what state.json holds
    results_dir            \* the files written under results/, in writing order

kvars == <<k_pc, k_args, iteration, task_id, task_content, result_text, k_ret, think_calls,
           agent_state, state_file, results_dir>>

\* what think() works on besides the memory
lvars == <<tool_manager, pc, args, system_prompt, current_prompt, tool_iteration,
           conversation_history, thought, tool_calls, tool_idx, tool_results, ret,
           llm_calls, batches, executed, tools_run, llm_inflight, tool_inflight, sent,
           batch_mem_start>>

VARIABLES
    c_pc,                  \* where continuous_thinking stands
    c_args,                \* its arguments: interval, duration (0 for None)
    start_time,            \* its local start_time
    wake_at,               \* when its asyncio.sleep is over
    tasks_dir,             \* the *.md files under tasks/
    task_files,            \* its local task_files, from the file in hand on
    cycle                  \* cycles it has begun

cvars == <<c_pc, c_args, start_time, wake_at, tasks_dir, task_files, cycle>>

VARIABLES
    recent_call            \* the latest Memory.recent call: n, kind, what it returned

vars == <<pvars, mvars, tvars, svars, kvars, cvars, recent_call>>

\* ---- Memory: entries, and their lines in memory.jsonl
NL == "\n"
BS == "\\"
QUOTE == "\""

\* datetime.now(timezone.utc).isoformat(): a string made from the clock
IsoFormat(t) == ToString(t)

\* The dict built by Memory.add at time t.
EntryAt(t, kind, content, importance) ==
    [timestamp |-> IsoFormat(t), kind |-> kind, content |-> content, importance |-> importance]

\* The dict built by Memory.add now.
Entry(kind, content, importance) == EntryAt(clock, kind, content, importance)

ImportanceValues == {1, 2, 3}

\* Faulty variant of EscapeChar: a line feed is written as it is.
EscapeCharRawNewline(c) ==
    IF c = BS THEN <<BS, BS>> ELSE IF c = QUOTE THEN <<BS, QUOTE>> ELSE <<c>>

\* json.dumps of one character of a string
EscapeChar(c) ==
    IF c = NL THEN <<BS, "n">>
    ELSE IF c = BS THEN <<BS, BS>>
    ELSE IF c = QUOTE THEN <<BS, QUOTE>>
    ELSE <<c>>

\* json.dumps of a string, without its quotes
RECURSIVE Escape(_)
Escape(text) == IF text = <<>> THEN <<>> ELSE EscapeChar(Head(text)) \o Escape(Tail(text))

\* json.loads of the inside of a string literal: an escape is undone, a bare
\* quote, a bare line feed or an unknown escape is a JSONDecodeError.
RECURSIVE Unescape(_)
Unescape(s) ==
    IF s = <<>> THEN [ok |-> TRUE, text |-> <<>>]
    ELSE IF Head(s) = BS
         THEN IF Len(s) >= 2 /\ s[2] \in {"n", BS, QUOTE}
              THEN LET rest == Unescape(Tail(Tail(s)))
                       c == IF s[2] = "n" THEN NL ELSE s[2]
                   IN  [ok |-> rest.ok, text |-> <<c>> \o rest.text]
              ELSE [ok |-> FALSE, text |-> <<>>]
         ELSE IF Head(s) \in {QUOTE, NL}
              THEN [ok |-> FALSE, text |-> <<>>]
              ELSE LET rest == Unescape(Tail(s))
                   IN  [ok |-> rest.ok, text |-> <<Head(s)>> \o rest.text]

\* json.dumps(memory) + "\n": the line Memory.add writes for an entry. The
\* kind is one of the program's literals and needs no escape.
Line(entry) ==
    <<"{", entry.timestamp, entry.kind, ToString(entry.importance), QUOTE>>
        \o Escape(entry.content) \o <<QUOTE, "}", NL>>

\* json.loads(line) for a line of memory.jsonl (line feed left out)
LoadsEntry(line) ==
    LET t == Strip(line)
        n == Len(t)
        importances == {i \in ImportanceValues : n >= 4 /\ ToString(i) = t[4]}
        body == Unescape(SubSeq(t, 6, n - 2))
    IN  IF /\ n >= 7
           /\ t[1] = "{" /\ t[5] = QUOTE /\ t[n - 1] = QUOTE /\ t[n] = "}"
           /\ importances /= {}
           /\ body.ok
        THEN [ok |-> TRUE,
              entry |-> [timestamp |-> t[2], kind |-> t[3], content |-> body.text,
                         importance |-> CHOOSE i \in importances : TRUE]]
        ELSE [ok |-> FALSE, entry |-> <<>>]

\* for line in f: the file cut after every line feed
RECURSIVE SplitLines(_, _, _, _)
SplitLines(file, i, cur, acc) ==
    IF i > Len(file) THEN (IF cur = <<>> THEN acc ELSE Append(acc, cur))
    ELSE IF file[i] = NL THEN SplitLines(file, i + 1, <<>>, Append(acc, cur))
    ELSE SplitLines(file, i + 1, Append(cur, file[i]), acc)

\* Memory.load: every non-blank line is parsed and appended; a line that is
\* not JSON makes load (and the constructor) raise.
RECURSIVE LoadFrom(_, _, _)
LoadFrom(lines, i, acc) ==
    IF i > Len(lines) THEN [state |-> "loaded", raised |-> FALSE, memories |-> acc]
    ELSE IF Strip(lines[i]) = <<>> THEN LoadFrom(lines, i + 1, acc)
    ELSE IF LoadsEntry(lines[i]).ok
         THEN LoadFrom(lines, i + 1, Append(acc, LoadsEntry(lines[i]).entry))
         ELSE [state |-> "loaded", raised |-> TRUE, memories |-> acc]

\* Memory(): an empty list, then load()
MemoryLoad(file) == LoadFrom(SplitLines(file, 1, <<>>, <<>>), 1, <<>>)

NotLoaded == [state |-> "none", raised |-> FALSE, memories |-> <<>>]

\* The content of memory.jsonl after the entries of mems were added in order.
RECURSIVE FileOf(_)
FileOf(mems) == IF mems = <<>> THEN <<>> ELSE Line(Head(mems)) \o FileOf(Tail(mems))

\* Faulty variant of Written: the file is opened for writing, not appending.
WrittenTruncating(file, entry) == Line(entry)

\* with open(MEMORY_FILE, "a") as f: f.write(json.dumps(memory) + "\n")
Written(file, entry) == file \o Line(entry)

\* No clock reading yet, no second Memory object.
StoreIdle == clock = 0 /\ reloaded = NotLoaded

\* Memory.recent(n) without a kind filter: filtered[-n:]
Recent(mems, n) ==
    IF n = 0 THEN mems
    ELSE SubSeq(mems, IF Len(mems) > n THEN Len(mems) - n + 1 ELSE 1, Len(mems))

\* kind=None
NoKind == "#None"

\* self.memories if kind is None else [m for m in self.memories if m["kind"] == kind]
Filtered(mems, kind) ==
    IF kind = NoKind THEN mems ELSE SelectSeq(mems, LAMBDA m : m.kind = kind)

\* Memory.recent(n, kind)
RecentOf(mems, n, kind) == Recent(Filtered(mems, kind), n)

\* content[:k]
Truncate(text, k) == SubSeq(text, 1, IF Len(text) < k THEN Len(text) ELSE k)

\* The "Recent Memory" lines of the system prompt.
RecentMemoryLines(mems) ==
    LET r == Recent(mems, RecentN)
    IN  [i \in 1..Len(r) |-> <<r[i].kind, Truncate(r[i].content, PreviewLen)>>]

\* ---- the replies a model may give
R_plain == <<Prose>>
R_one == <<Prose>> \o BlockA
R_two == BlockA \o <<Prose>> \o BlockB
R_bad == <<Prose>> \o Block(<<Truncated>>)
R_num == Block(<<JNum>>)
R_astr == BlockA \o Block(<<JStrBoth>>)
R_pnum == Block(<<ParamsNum>>)
R_mixed == BlockB \o Block(<<Prose, " ">>) \o BlockA

Replies == {R_plain, R_one, R_two, R_bad, R_num, R_astr, R_pnum, R_mixed}

\* The completion marker, and replies with it, with a truncated and a
\* case-altered variant of it, and without any of them.
Marker == "TASK_DONE"
R_done == <<Prose, Marker>>
R_near == <<"TASK_DON", Prose, "task_done">>

\* What the model answers during a task run.
TaskReplies == {R_plain, R_done, R_near, R_one}

\* The replies of a continuous run: prose, or one tool call in the first turn
\* of a think().
CycleReplies == {R_plain, R_one}

\* The replies the model may give now: in a task run it asks for tools in at
\* most MaxChain turns of one think().
RepliesNow ==
    IF c_pc /= "off"
    THEN IF batches = 0 THEN CycleReplies ELSE CycleReplies \ {R_one}
    ELSE IF k_pc \in {"thinking", "single"}
    THEN IF batches < MaxChain THEN TaskReplies ELSE TaskReplies \ {R_one}
    ELSE Replies

\* The providers whose call may fail now: any of the available ones; in a
\* continuous run the providers answer.
FailingNow == IF c_pc /= "off" THEN {{}} ELSE SUBSET providers

\* ---- the tool gateway: call_tool(name, **params) returns a result or raises
ToolOutcomes == {"result", "raise"}
ToolResult(name) == <<"result of ", name>>
ToolError(name) == <<"error of ", name>>

Success(call, result) == [tool |-> call.tool, params |-> call.params, success |-> TRUE, payload |-> result]
Failure(call, error) == [tool |-> call.tool, params |-> call.params, success |-> FALSE, payload |-> error]

\* Faulty variant of ResultsText: failed calls are left out of the text.
ResultsTextSuccessOnly(results) ==
    LET ok == SelectSeq(results, LAMBDA r : r.success)
    IN  [i \in 1..Len(ok) |-> <<ok[i].tool, ok[i].payload>>]

\* results_text: "Tool: ...\nResult: ..." of every outcome, joined in order
ResultsText(results) == [i \in 1..Len(results) |-> <<results[i].tool, results[i].payload>>]

NothingSent == [system |-> <<>>, user |-> [kind |-> "none", prompt |-> <<>>, results |-> <<>>]]

\* Faulty variant of ResultsPrompt: the prompt after a batch carries no outcome.
ResultsPromptBlank(results) == [kind |-> "tool_results", prompt |-> <<>>, results |-> <<>>]

FirstPrompt(prompt) == [kind |-> "prompt", prompt |-> prompt, results |-> <<>>]
ResultsPrompt(results) == [kind |-> "tool_results", prompt |-> <<>>, results |-> ResultsText(results)]

\* ---- think(): control
NoRet == [kind |-> "none", at |-> "", value |-> <<>>]
\* return thought (no tool calls found)
ReturnReply(text) == [kind |-> "return", at |-> "no_tool_calls", value |-> text]

\* Faulty variant of OnThinkError: the exception leaves think().
OnThinkErrorRaise(e) == [kind |-> "raise", at |-> "llm_failed", value |-> e]

\* except Exception as e: return f"[ERROR] Failed to think: {e}"
OnThinkError(e) == [kind |-> "return", at |-> "llm_failed", value |-> <<ErrorPrefix>> \o e]

\* Faulty variant of LoopCond: one round trip too many.
LoopCondInclusive(ti, maxit) == ti <= maxit

\* while tool_iteration < max_tool_iterations
LoopCond(ti, maxit) == ti < maxit

\* Faulty variant of ReturnAtMax: the ceiling is reported as an error text.
ReturnAtMaxError(th) == [kind |-> "return", at |-> "max_iterations", value |-> <<ErrorPrefix>> \o <<"max tool iterations">>]

\* return thought (after the loop): UnboundLocalError when no reply was ever assigned
ReturnAtMax(th) ==
    IF th = Unbound
    THEN [kind |-> "raise", at |-> "max_iterations", value |-> UnboundLocalError]
    ELSE [kind |-> "return", at |-> "max_iterations", value |-> th]

PcOf(r) == IF r.kind = "raise" THEN "raised" ELSE "returned"

\* The loop test, and what follows it: another model call or the final return.
LoopHead(ti, maxit, th) ==
    IF LoopCond(ti, maxit)
    THEN [pc |-> "call_llm", ret |-> NoRet]
    ELSE [pc |-> PcOf(ReturnAtMax(th)), ret |-> ReturnAtMax(th)]

\* Faulty variant of NextCall: the batch is walked backwards.
NextCallReversed(calls, i) == calls[Len(calls) - i + 1]

\* for tool_call in tool_calls
NextCall(calls, i) == calls[i]

\* ---- think(): the steps
InitMemories == {<<>>, <<EntryAt(0, "task", <<Prose>>, 3)>>}

\* fallback_order when credentials.json gives none
DefaultOrder == <<"bedrock", "anthropic", "openai", "ollama">>
ThinkAvailable == {{}, {"anthropic"}, {"bedrock", "ollama"}}

ThinkIdle(tm, mems) ==
    /\ tool_manager = tm
    /\ memories = mems
    /\ memory_file = FileOf(mems)
    /\ pc = "idle"
    /\ args = [prompt |-> <<>>, allow_tools |-> FALSE, max_tool_iterations |-> 0]
    /\ system_prompt = <<>>
    /\ current_prompt = FirstPrompt(<<>>)
    /\ tool_iteration = 0
    /\ conversation_history = <<>>
    /\ thought = Unbound
    /\ tool_calls = <<>>
    /\ tool_idx = 1
    /\ tool_results = <<>>
    /\ ret = NoRet
    /\ llm_calls = 0
    /\ batches = 0
    /\ executed = <<>>
    /\ tools_run = 0
    /\ llm_inflight = 0
    /\ tool_inflight = 0
    /\ sent = NothingSent
    /\ batch_mem_start = 0

\* A call think(prompt, allow_tools, max_tool_iterations) on an agent whose
\* memory is mems, up to the first loop test: the system prompt is built, the
\* locals are set (thought is not). The counters of the invocation start over.
ThinkEnter(mems, prompt, allow, maxit) ==
    /\ args' = [prompt |-> prompt, allow_tools |-> allow, max_tool_iterations |-> maxit]
    /\ pc' = LoopHead(0, maxit, Unbound).pc
    /\ ret' = LoopHead(0, maxit, Unbound).ret
    /\ system_prompt' = RecentMemoryLines(mems)
    /\ current_prompt' = FirstPrompt(prompt)
    /\ tool_iteration' = 0
    /\ conversation_history' = <<>>
    /\ thought' = Unbound
    /\ tool_calls' = <<>>
    /\ tool_idx' = 1
    /\ tool_results' = <<>>
    /\ llm_calls' = 0
    /\ batches' = 0
    /\ executed' = <<>>
    /\ tools_run' = 0
    /\ sent' = NothingSent
    /\ batch_mem_start' = Len(mems)
    /\ UNCHANGED <<llm_inflight, tool_inflight, tool_manager>>

\* think(prompt, allow_tools, max_tool_iterations), called directly.
ThinkStart ==
    /\ pc = "idle"
    /\ \E allow \in BOOLEAN, maxit \in 0..MaxToolIter :
        ThinkEnter(memories, UserPrompt, allow, maxit)
    /\ UNCHANGED <<memories, memory_file>>
    /\ UNCHANGED <<pvars, recent_call, cvars, mvars, svars, kvars>>

\* await provider_manager.call(system_prompt, current_prompt, ...): the call goes out.
LLMIssue ==
    /\ pc = "call_llm"
    /\ pc' = "await_llm"
    /\ llm_calls' = llm_calls + 1
    /\ llm_inflight' = llm_inflight + 1
    /\ sent' = [system |-> system_prompt, user |-> current_prompt]
    /\ UNCHANGED <<tool_manager, memories, memory_file, args, system_prompt, current_prompt,
                   tool_iteration, conversation_history, thought, tool_calls, tool_idx,
                   tool_results, ret, batches, executed, tools_run, tool_inflight,
                   batch_mem_start>>
    /\ UNCHANGED <<pvars, recent_call, cvars, mvars, svars, kvars>>

\* The coordinator's call comes back: an error text on failure, else the reply
\* is parsed and either a tool batch starts or the reply is returned.
LLMReturn ==
    /\ pc = "await_llm"
    /\ \E reply \in RepliesNow, failing \in FailingNow :
        LET out == [p \in PROVIDERS |-> IF p \in failing THEN Throw ELSE reply]
            r == ManagerCall(fallback_order, providers, out, active_provider)
            use_tools == args.allow_tools /\ tool_manager
            parsed == ExtractToolCalls(r.response)
        IN  /\ call_out' = out
            /\ call_ret' = [state |-> "called", raised |-> r.raised, response |-> r.response,
                            provider |-> r.provider, attempts |-> r.attempts]
            /\ active_provider' = r.active
            /\ retried' = Retried(r.attempts, call_out, call_ret)
            /\ llm_inflight' = llm_inflight - 1
            /\ IF r.raised
               THEN /\ ret' = OnThinkError(NoProviderError)
                    /\ pc' = PcOf(ret')
                    /\ UNCHANGED <<thought, conversation_history, tool_calls, tool_idx,
                                   tool_results, executed, batch_mem_start>>
               ELSE /\ thought' = r.response
                    /\ conversation_history' = Append(conversation_history, r.response)
                    /\ IF use_tools /\ parsed.raised
                       THEN /\ ret' = OnThinkError(TypeError)
                            /\ pc' = PcOf(ret')
                            /\ UNCHANGED <<tool_calls, tool_idx, tool_results, executed,
                                           batch_mem_start>>
                       ELSE IF use_tools /\ parsed.calls /= <<>>
                       THEN /\ tool_calls' = parsed.calls
                            /\ tool_idx' = 1
                            /\ tool_results' = <<>>
                            /\ executed' = <<>>
                            /\ batch_mem_start' = Len(memories)
                            /\ pc' = "next_tool"
                            /\ UNCHANGED ret
                       ELSE /\ ret' = ReturnReply(r.response)
                            /\ pc' = "returned"
                            /\ IF use_tools
                               THEN tool_calls' = parsed.calls
                               ELSE UNCHANGED tool_calls
                            /\ UNCHANGED <<tool_idx, tool_results, executed, batch_mem_start>>
    /\ UNCHANGED <<tool_manager, memories, memory_file, args, system_prompt, current_prompt,
                   tool_iteration, llm_calls, batches, tools_run, tool_inflight, sent>>
    /\ UNCHANGED <<pvars, recent_call, cvars, fallback_order, providers, svars, kvars>>

\* Faulty variant of BatchOver: a failed call ends the batch.
BatchOverOnFailure(i, n, o) == i + 1 > n \/ ~o.success

\* The for loop over tool_calls ends after its last element, whatever the
\* outcome o of the pass just made (the except clause only records it).
BatchOver(i, n, o) == i + 1 > n

\* One pass of the for loop is over with outcome o: the next call, or the end
\* of the batch (results into the next prompt, counter up, loop test).
AfterOutcome(o) ==
    /\ tool_results' = Append(tool_results, o)
    /\ tool_idx' = tool_idx + 1
    /\ IF BatchOver(tool_idx, Len(tool_calls), o)
       THEN /\ current_prompt' = ResultsPrompt(Append(tool_results, o))
            /\ tool_iteration' = tool_iteration + 1
            /\ batches' = batches + 1
            /\ pc' = LoopHead(tool_iteration + 1, args.max_tool_iterations, thought).pc
            /\ ret' = LoopHead(tool_iteration + 1, args.max_tool_iterations, thought).ret
       ELSE /\ pc' = "next_tool"
            /\ UNCHANGED <<current_prompt, tool_iteration, batches, ret>>

\* The next tool call of the batch (a dict holding both keys, the parser
\* returns nothing else): call_tool(tool_name, **tool_params) goes out, or
\* fails on the spot with a TypeError when the params are no mapping.
ToolIssue ==
    /\ pc = "next_tool"
    /\ LET call == NextCall(tool_calls, tool_idx)
       IN  IF ~call.mapping
           THEN /\ AfterOutcome(Failure(call, TypeError))
                /\ UNCHANGED <<executed, tools_run, tool_inflight>>
           ELSE /\ pc' = "await_tool"
                /\ executed' = Append(executed, call)
                /\ tools_run' = tools_run + 1
                /\ tool_inflight' = tool_inflight + 1
                /\ UNCHANGED <<tool_results, tool_idx, current_prompt, tool_iteration,
                               batches, ret>>
    /\ UNCHANGED <<tool_manager, memories, memory_file, args, system_prompt,
                   conversation_history, thought, tool_calls, llm_calls, llm_inflight,
                   sent, batch_mem_start>>
    /\ UNCHANGED <<pvars, recent_call, cvars, mvars, svars, kvars>>

\* call_tool comes back with a result (recorded in memory) or an exception.
ToolReturn ==
    /\ pc = "await_tool"
    /\ tool_inflight' = tool_inflight - 1
    /\ \E outcome \in ToolOutcomes :
        LET call == NextCall(tool_calls, tool_idx)
            entry == Entry("tool_call", <<call.tool, ": ">> \o ToolResult(call.tool), 2)
        IN  IF outcome = "result"
            THEN /\ AfterOutcome(Success(call, ToolResult(call.tool)))
                 /\ memories' = Append(memories, entry)
                 /\ memory_file' = Written(memory_file, entry)
            ELSE /\ AfterOutcome(Failure(call, ToolError(call.tool)))
                 /\ UNCHANGED <<memories, memory_file>>
    /\ UNCHANGED <<tool_manager, args, system_prompt, conversation_history, thought,
                   tool_calls, llm_calls, executed, tools_run, llm_inflight,
                   sent, batch_mem_start>>
    /\ UNCHANGED <<pvars, recent_call, cvars, mvars, svars, kvars>>

\* ---- parse_task_frontmatter: a task text is a sequence of lines, a line a
\* sequence of tokens
Delim == "---"
Colon == ":"

\* ^---\s*\n and \n---\s*\n: a line of three dashes and blanks only
IsDelimLine(line) ==
    /\ line /= <<>>
    /\ line[1] = Delim
    /\ \A i \in 2..Len(line) : line[i] \in Whitespace

\* Where the lazy (.*?) can stop: a delimiter line from the third line on,
\* with a line feed after it.
Closings(lines) == {j \in 3..(Len(lines) - 1) : IsDelimLine(lines[j])}

Least(S) == CHOOSE x \in S : \A y \in S : x <= y
Greatest(S) == CHOOSE x \in S : \A y \in S : x >= y

\* The \s* after the closing dashes also takes the blank lines that follow.
RECURSIVE DropBlankLines(_)
DropBlankLines(lines) ==
    IF Len(lines) >= 2 /\ Strip(Head(lines)) = <<>>
    THEN DropBlankLines(Tail(lines))
    ELSE lines

\* '\n'.join(lines): the text of a run of lines
RECURSIVE Join(_)
Join(lines) ==
    IF lines = <<>> THEN <<>>
    ELSE IF Len(lines) = 1 THEN Head(lines)
    ELSE Head(lines) \o <<NL>> \o Join(Tail(lines))

\* key, val = line.split(':', 1), both stripped
KeyVal(line) ==
    LET c == Least({i \in 1..Len(line) : line[i] = Colon})
    IN  <<Strip(SubSeq(line, 1, c - 1)), Strip(SubSeq(line, c + 1, Len(line)))>>

\* The metadata lines with a colon, as key/value pairs in file order (a later
\* pair overrides an earlier one with the same key).
RECURSIVE MetaPairs(_)
MetaPairs(lines) ==
    IF lines = <<>> THEN <<>>
    ELSE IF \E i \in 1..Len(Head(lines)) : Head(lines)[i] = Colon
         THEN <<KeyVal(Head(lines))>> \o MetaPairs(Tail(lines))
         ELSE MetaPairs(Tail(lines))

\* parse_task_frontmatter(task_text): (metadata, content)
ParseFrontmatter(lines) ==
    IF Len(lines) >= 1 /\ IsDelimLine(lines[1]) /\ Closings(lines) /= {}
    THEN LET j == Least(Closings(lines))
         IN  [metadata |-> MetaPairs(SubSeq(lines, 2, j - 1)),
              content |-> Join(DropBlankLines(SubSeq(lines, j + 1, Len(lines))))]
    ELSE [metadata |-> <<>>, content |-> Join(lines)]

Missing == <<"#missing">>

\* metadata.get(key): the value of the last pair with that key
MetaGet(meta, key) ==
    LET at == {i \in 1..Len(meta) : meta[i][1] = key}
    IN  IF at = {} THEN Missing ELSE meta[Greatest(at)][2]

ValueError == <<"ValueError: invalid literal for int()">>

\* Faulty variant of IterationOf: the header's iteration is not read.
IterationOfDefault(meta) == [ok |-> TRUE, n |-> 1]

\* int(metadata.get('iteration', 1)): the default is the number 1, a value
\* from the file is a string that int() takes or refuses.
IterationOf(meta) ==
    LET v == MetaGet(meta, <<"iteration">>)
        ns == {n \in 0..9 : v = <<ToString(n)>>}
    IN  IF v = Missing THEN [ok |-> TRUE, n |-> 1]
        ELSE IF ns /= {} THEN [ok |-> TRUE, n |-> CHOOSE n \in ns : TRUE]
        ELSE [ok |-> FALSE, n |-> 0]

\* metadata.get('task_id', f"task_{int(time.time())}")
TaskIdOf(meta, now) ==
    IF MetaGet(meta, <<"task_id">>) = Missing
    THEN <<"task_", ToString(now)>>
    ELSE MetaGet(meta, <<"task_id">>)

\* ---- process_task_with_loop
DefaultMaxToolIterations == 10
ResultPreviewLen == 200

Body == <<"Summarize the report">>

\* Task files: no header; a header that resumes at iteration 2 under an id
\* of its own; an iteration that is no number; a header that is never closed;
\* a header that resumes past any maximum.
T_plain == <<Body>>
T_resume == <<<<Delim>>, <<"iteration", Colon, " ", "2">>, <<"task_id", Colon, " ", "t7">>,
              <<Delim, " ">>, Body>>
T_bad == <<<<Delim>>, <<"iteration", Colon, " ", "abc">>, <<Delim>>, Body>>
T_open == <<<<Delim>>, <<"iteration", Colon, " ", "2">>, Body>>
T_late == <<<<Delim>>, <<"iteration", Colon, " ", "7">>, <<Delim>>, Body>>
TaskTexts == {T_plain, T_resume, T_bad, T_open, T_late}

\* A header that resumes at iteration 0, run with the small maxima only.
T_zero == <<<<Delim>>, <<"task_id", Colon, " ", "t0">>, <<"iteration", Colon, " ", "0">>,
            <<Delim>>, Body>>
ZeroMaxima == {0, 1}

\* The calls process_task_with_loop(task_text, max_iterations) that are made.
LoopInputs ==
    {<<text, maxiter>> : text \in TaskTexts, maxiter \in 0..MaxIterations}
        \cup {<<T_zero, maxiter>> : maxiter \in ZeroMaxima}

\* The prompt of one outer iteration.
LoopPrompt(iter, maxiter, content) ==
    <<"Task for you (Iteration ", ToString(iter), "/", ToString(maxiter), "):">>
        \o content \o <<"IMPORTANT: include ", Marker, " when ALL steps are completed">>

\* "TASK_DONE" in result_text
Contains(text, word) == \E i \in 1..Len(text) : text[i] = word

Complete(tid, content, text, iter) ==
    [timestamp |-> IsoFormat(clock), task_id |-> tid, task |-> content, result |-> text,
     iterations |-> iter, status |-> "complete"]

\* Faulty variant of MaxReached: the text of the last think() is left out.
MaxReachedBlank(tid, content, text, iter) ==
    [timestamp |-> IsoFormat(clock), task_id |-> tid, task |-> content, result |-> <<>>,
     iterations |-> iter - 1, status |-> "max_iterations_reached"]

MaxReached(tid, content, text, iter) ==
    [timestamp |-> IsoFormat(clock), task_id |-> tid, task |-> content, result |-> text,
     iterations |-> iter - 1, status |-> "max_iterations_reached"]

NoFile == <<"#no file">>

\* The agent before any task: a fresh state, nothing written.
TaskIdle ==
    /\ k_pc = "none"
    /\ k_args = [task_text |-> <<>>, max_iterations |-> 0]
    /\ iteration = 0
    /\ task_id = <<>>
    /\ task_content = <<>>
    /\ result_text = <<>>
    /\ k_ret = NoRet
    /\ think_calls = 0
    /\ agent_state = [cycles |-> 0, tasks_completed |-> 0]
    /\ state_file = NoFile
    /\ results_dir = <<>>

\* _save_state() after tasks_completed += 1
SavedState(st) == [cycles |-> st.cycles + 1, tasks_completed |-> st.tasks_completed + 1]

\* Faulty variant of IsDone: the marker is matched whatever its case or length.
IsDoneLoose(text) ==
    Contains(text, Marker) \/ Contains(text, "TASK_DON") \/ Contains(text, "task_done")

\* if "TASK_DONE" in result_text
IsDone(text) == Contains(text, Marker)

\* Faulty variant of WhileCond: the last iteration is not made.
WhileCondStrict(iter, maxiter) == iter < maxiter

\* while iteration <= max_iterations
WhileCond(iter, maxiter) == iter <= maxiter

\* The end of process_task_with_loop: the artifact is written under the task
\* id, the result goes to memory, the state is counted up and saved.
Finish(final, mems, file) ==
    LET e == Entry("result", <<"Task ">> \o final.task_id
                       \o <<": ", final.status, " in ", ToString(final.iterations), " iterations">>, 2)
    IN  /\ results_dir' = Append(results_dir,
                                  [name |-> final.task_id \o <<".json">>, data |-> final])
        /\ memories' = Append(mems, e)
        /\ memory_file' = Written(file, e)
        /\ agent_state' = SavedState(agent_state)
        /\ state_file' = SavedState(agent_state)
        /\ k_pc' = "done"
        /\ k_ret' = [kind |-> "return", at |-> "end", value |-> final]
        /\ pc' = "idle"
        /\ UNCHANGED <<tool_manager, args, system_prompt, current_prompt, tool_iteration,
                       conversation_history, thought, tool_calls, tool_idx, tool_results, ret,
                       llm_calls, batches, executed, tools_run, llm_inflight, tool_inflight,
                       sent, batch_mem_start>>

\* The while test with the locals as they stand, and what follows it: one
\* more think(prompt) with its default arguments, or the end of the method.
LoopTop(iter, tid, content, text, mems, file, maxiter) ==
    /\ iteration' = iter
    /\ task_id' = tid
    /\ task_content' = content
    /\ result_text' = text
    /\ IF WhileCond(iter, maxiter)
       THEN /\ ThinkEnter(mems, LoopPrompt(iter, maxiter, content), TRUE, DefaultMaxToolIterations)
            /\ memories' = mems
            /\ memory_file' = file
            /\ k_pc' = "thinking"
            /\ think_calls' = think_calls + 1
            /\ UNCHANGED <<k_ret, agent_state, state_file, results_dir>>
       ELSE /\ Finish(MaxReached(tid, content, text, iter), mems, file)
            /\ UNCHANGED think_calls

\* process_task_with_loop(task_text, max_iterations) up to its first await:
\* the header is parsed, the task goes to memory and the loop is entered.
TaskStart ==
    /\ k_pc = "none"
    /\ pc = "idle"
    /\ \E in \in LoopInputs :
        LET text == in[1]
            maxiter == in[2]
            fm == ParseFrontmatter(text)
            it == IterationOf(fm.metadata)
            e == Entry("task", <<"[Loop] ">> \o Truncate(fm.content, PreviewLen) \o <<"...">>, 3)
        IN  /\ k_args' = [task_text |-> text, max_iterations |-> maxiter]
            /\ IF ~it.ok
               THEN /\ k_pc' = "raised"
                    /\ k_ret' = [kind |-> "raise", at |-> "int", value |-> ValueError]
                    /\ UNCHANGED <<iteration, task_id, task_content, result_text, think_calls,
                                   agent_state, state_file, results_dir, tvars>>
               ELSE LoopTop(it.n, TaskIdOf(fm.metadata, clock), fm.content, <<>>,
                            Append(memories, e), Written(memory_file, e), maxiter)
    /\ UNCHANGED <<pvars, recent_call, cvars, mvars, svars>>

\* think() is back in process_task_with_loop: the marker test, then either
\* the break or the iteration note, the increment and the while test.
TaskAfterThink ==
    /\ k_pc = "thinking"
    /\ pc \in {"returned", "raised"}
    /\ IF ret.kind = "raise"
       THEN /\ k_pc' = "raised"
            /\ k_ret' = ret
            /\ pc' = "idle"
            /\ UNCHANGED <<iteration, task_id, task_content, result_text, think_calls,
                           agent_state, state_file, results_dir, memories, memory_file>>
            /\ UNCHANGED <<tool_manager, args, system_prompt, current_prompt, tool_iteration,
                           conversation_history, thought, tool_calls, tool_idx, tool_results,
                           ret, llm_calls, batches, executed, tools_run, llm_inflight,
                           tool_inflight, sent, batch_mem_start>>
       ELSE IF IsDone(ret.value)
       THEN /\ Finish(Complete(task_id, task_content, ret.value, iteration), memories, memory_file)
            /\ result_text' = ret.value
            /\ UNCHANGED <<iteration, task_id, task_content, think_calls>>
       ELSE LET e == Entry("iteration", <<"Iter ", ToString(iteration), ": ">>
                               \o Truncate(ret.value, PreviewLen) \o <<"...">>, 2)
            IN  LoopTop(iteration + 1, task_id, task_content, ret.value,
                        Append(memories, e), Written(memory_file, e), k_args.max_iterations)
    /\ UNCHANGED <<k_args, pvars, recent_call, cvars, mvars, svars>>

\* ---- process_task
\* The prompt process_task builds around the task text.
SinglePrompt(text) ==
    <<"Task for you:">> \o text \o <<"Think step-by-step and provide a solution.">>

\* process_task(task_text) up to its first await: the task goes to memory and
\* think(prompt) is called with its default arguments.
ProcessTaskEnter(text, mems, file) ==
    LET e == Entry("task", Join(text), 3)
    IN  /\ k_args' = [task_text |-> text, max_iterations |-> 0]
        /\ task_content' = Join(text)
        /\ memories' = Append(mems, e)
        /\ memory_file' = Written(file, e)
        /\ ThinkEnter(Append(mems, e), SinglePrompt(Join(text)), TRUE,
                      DefaultMaxToolIterations)
        /\ k_pc' = "single"
        /\ think_calls' = think_calls + 1
        /\ UNCHANGED <<iteration, task_id, result_text, k_ret, agent_state, state_file,
                       results_dir>>

\* process_task(task_text), called directly.
ProcessTaskStart ==
    /\ k_pc = "none"
    /\ pc = "idle"
    /\ \E text \in TaskTexts : ProcessTaskEnter(text, memories, memory_file)
    /\ UNCHANGED <<pvars, recent_call, cvars, mvars, svars>>

\* think() is back in process_task: the result is written under a name made
\* from the clock, noted in memory, and the state is counted up and saved.
ProcessTaskAfterThink ==
    /\ k_pc = "single"
    /\ pc \in {"returned", "raised"}
    /\ pc' = "idle"
    /\ IF ret.kind = "raise"
       THEN /\ k_pc' = "single_raised"
            /\ k_ret' = ret
            /\ UNCHANGED <<result_text, agent_state, state_file, results_dir, memories,
                           memory_file>>
       ELSE LET result == [timestamp |-> IsoFormat(clock), task |-> task_content,
                           result |-> ret.value]
                e == Entry("result", Truncate(ret.value, ResultPreviewLen), 2)
            IN  /\ result_text' = ret.value
                /\ results_dir' = Append(results_dir,
                        [name |-> <<"task_", ToString(clock), ".json">>, data |-> result])
                /\ memories' = Append(memories, e)
                /\ memory_file' = Written(memory_file, e)
                /\ agent_state' = SavedState(agent_state)
                /\ state_file' = SavedState(agent_state)
                /\ k_pc' = "single_done"
                /\ k_ret' = [kind |-> "return", at |-> "end", value |-> result]
    /\ UNCHANGED <<tool_manager, args, system_prompt, current_prompt, tool_iteration,
                   conversation_history, thought, tool_calls, tool_idx, tool_results, ret,
                   llm_calls, batches, executed, tools_run, llm_inflight, tool_inflight,
                   sent, batch_mem_start>>
    /\ UNCHANGED <<k_args, iteration, task_id, task_content, think_calls, pvars, recent_call, cvars, mvars, svars>>

\* ---- continuous_thinking
MaxClock == 2      \* the clock stops advancing there
MaxCycles == 2     \* cycles one run may begin

Intervals == {0, 1}
Durations == {0, 1}
TaskFileNames == {"a.md", "b.md"}

\* f.read() of a task file
TaskFileText(name) == IF name = "a.md" THEN T_plain ELSE T_resume

ThoughtPrompt == <<"What should you be thinking about right now?">>

\* list(TASKS_DIR.glob("*.md")): the files in the order the directory gives them
Orders(files) ==
    {o \in [1..Cardinality(files) -> files] :
        \A i, j \in 1..Cardinality(files) : o[i] = o[j] => i = j}

\* No continuous run: nothing under tasks/.
ContIdle ==
    /\ c_pc = "off"
    /\ c_args = [interval |-> 0, duration |-> 0]
    /\ start_time = 0
    /\ wake_at = 0
    /\ tasks_dir = {}
    /\ task_files = <<>>
    /\ cycle = 0

\* _save_state() alone
SaveState(st) == [st EXCEPT !.cycles = @ + 1]

\* Faulty variant of BudgetSpent: a budget of exactly duration already stops.
BudgetSpentAtDuration(now, start, duration) == duration /= 0 /\ (now - start) >= duration

\* if duration and (time.time() - start_time) > duration
BudgetSpent(now, start, duration) == duration /= 0 /\ (now - start) > duration

\* thought = await self.think(thought_prompt), up to its first await
ThoughtEnter(mems, file) ==
    /\ ThinkEnter(mems, ThoughtPrompt, TRUE, DefaultMaxToolIterations)
    /\ memories' = mems
    /\ memory_file' = file
    /\ k_pc' = "none"
    /\ UNCHANGED <<k_args, iteration, task_id, task_content, result_text, k_ret, think_calls,
                   agent_state, state_file, results_dir>>

\* Faulty variant of Listed: the files are deleted as they are listed.
ListedAndDeleted(dir, order) == {}

\* tasks/ after list(TASKS_DIR.glob("*.md")): listing deletes nothing
Listed(dir, order) == dir

\* The top of the while loop: the budget test, then the task files are
\* listed and the first one is processed, or think() is called at once.
CycleTop(mems, file, start, duration) ==
    IF BudgetSpent(clock, start, duration)
    THEN /\ c_pc' = "stopped"
         /\ memories' = mems
         /\ memory_file' = file
         /\ UNCHANGED <<lvars, kvars, tasks_dir, task_files, cycle>>
    ELSE /\ cycle < MaxCycles
         /\ cycle' = cycle + 1
         /\ \E order \in Orders(tasks_dir) :
              /\ task_files' = order
              /\ tasks_dir' = Listed(tasks_dir, order)
              /\ IF order /= <<>>
                 THEN /\ c_pc' = "task"
                      /\ ProcessTaskEnter(TaskFileText(order[1]), mems, file)
                 ELSE /\ c_pc' = "think"
                      /\ ThoughtEnter(mems, file)

\* continuous_thinking(interval, duration) up to its first await.
ContinuousStart ==
    /\ c_pc = "off"
    /\ pc = "idle"
    /\ k_pc = "none"
    /\ \E interval \in Intervals, duration \in Durations :
        LET e == Entry("observation", <<"Starting continuous thinking cycle">>, 1)
        IN  /\ c_args' = [interval |-> interval, duration |-> duration]
            /\ start_time' = clock
            /\ CycleTop(Append(memories, e), Written(memory_file, e), clock, duration)
    /\ UNCHANGED <<wake_at, pvars, recent_call, mvars, svars>>

\* process_task is back in the for loop: the file is deleted, and the next
\* file is processed or think() is called.
CycleAfterTask ==
    /\ c_pc = "task"
    /\ k_pc \in {"single_done", "single_raised"}
    /\ IF k_pc = "single_raised"
       THEN /\ c_pc' = "raised"
            /\ UNCHANGED <<tvars, kvars, tasks_dir, task_files>>
       ELSE /\ tasks_dir' = tasks_dir \ {Head(task_files)}
            /\ task_files' = Tail(task_files)
            /\ IF Tail(task_files) /= <<>>
               THEN /\ c_pc' = "task"
                    /\ ProcessTaskEnter(TaskFileText(task_files[2]), memories, memory_file)
               ELSE /\ c_pc' = "think"
                    /\ ThoughtEnter(memories, memory_file)
    /\ UNCHANGED <<c_args, start_time, wake_at, cycle, pvars, recent_call, mvars, svars>>

\* think() is back: the thought goes to memory, the state is saved and the
\* loop sleeps for interval seconds.
CycleAfterThink ==
    /\ c_pc = "think"
    /\ pc \in {"returned", "raised"}
    /\ pc' = "idle"
    /\ IF ret.kind = "raise"
       THEN /\ c_pc' = "raised"
            /\ UNCHANGED <<memories, memory_file, agent_state, state_file, wake_at>>
       ELSE LET e == Entry("thought", ret.value, 1)
            IN  /\ memories' = Append(memories, e)
                /\ memory_file' = Written(memory_file, e)
                /\ agent_state' = SaveState(agent_state)
                /\ state_file' = SaveState(agent_state)
                /\ c_pc' = "sleep"
                /\ wake_at' = clock + c_args.interval
    /\ UNCHANGED <<tool_manager, args, system_prompt, current_prompt, tool_iteration,
                   conversation_history, thought, tool_calls, tool_idx, tool_results, ret,
                   llm_calls, batches, executed, tools_run, llm_inflight, tool_inflight,
                   sent, batch_mem_start>>
    /\ UNCHANGED <<k_pc, k_args, iteration, task_id, task_content, result_text, k_ret,
                   think_calls, results_dir>>
    /\ UNCHANGED <<c_args, start_time, tasks_dir, task_files, cycle, pvars, recent_call, mvars, svars>>

\* asyncio.sleep(interval) is over: the loop is at its top again.
CycleWake ==
    /\ c_pc = "sleep"
    /\ clock >= wake_at
    /\ CycleTop(memories, memory_file, start_time, c_args.duration)
    /\ UNCHANGED <<c_args, start_time, wake_at, pvars, recent_call, mvars, svars>>

\* Time passes while the run awaits the model, a tool or its sleep.
Tick ==
    /\ c_pc \in {"task", "think", "sleep"}
    /\ c_pc = "sleep" \/ pc \in {"await_llm", "await_tool"}
    /\ clock < MaxClock
    /\ clock' = clock + 1
    /\ UNCHANGED <<reloaded, pvars, recent_call, mvars, tvars, kvars, cvars>>

\* ---- Memory.recent
MaxLog == 3        \* entries of the log Memory.recent is called on

LogKinds == {"thought", "task", "tool_call"}
RecentKinds == LogKinds \cup {NoKind, "result"}

\* The logs of up to MaxLog entries, the i-th stamped i.
Logs ==
    UNION {{[i \in 1..k |-> EntryAt(i, kinds[i], <<Prose>>, 1)] : kinds \in [1..k -> LogKinds]}
               : k \in 0..MaxLog}

\* No Memory.recent call yet.
RecentIdle == recent_call = [state |-> "none", n |-> 0, kind |-> NoKind, result |-> <<>>]

\* Memory.recent(n, kind) on the log as it stands.
RecentCall ==
    /\ \E n \in 0..(MaxLog + 1), kind \in RecentKinds :
        recent_call' = [state |-> "called", n |-> n, kind |-> kind,
                        result |-> RecentOf(memories, n, kind)]
    /\ UNCHANGED <<pvars, mvars, tvars, svars, kvars, cvars>>

\* ---- Memory: the operations
\* What callers store: a kind with the importance the program gives it.
MemInputs == {<<"thought", 1>>, <<"tool_call", 2>>, <<"task", 3>>}

\* Contents with the characters json.dumps has to escape.
MemContents ==
    {<<>>, <<"a">>, <<NL>>, <<BS>>, <<BS, "n">>, <<QUOTE, "a", QUOTE>>, <<"a", NL, "{", "}">>}

\* Memory.add(kind, content, importance): the clock is read, the entry is
\* appended to the list and its line to the file.
MemAdd ==
    /\ reloaded = NotLoaded
    /\ Len(memories) < MaxEntries
    /\ \E t \in {clock, clock + 1}, in \in MemInputs, content \in MemContents :
        /\ clock' = t
        /\ memories' = Append(memories, EntryAt(t, in[1], content, in[2]))
        /\ memory_file' = Written(memory_file, EntryAt(t, in[1], content, in[2]))
    /\ UNCHANGED <<reloaded, lvars, pvars, recent_call, cvars, mvars, kvars>>

\* Memory(): a fresh object loads memory.jsonl.
Reload ==
    /\ reloaded = NotLoaded
    /\ reloaded' = MemoryLoad(memory_file)
    /\ UNCHANGED <<clock, tvars, pvars, recent_call, cvars, mvars, kvars>>

\* ------------------------------------------------------- specifications
\* think(), called once on an agent with some memory and some providers.
Init ==
    /\ ParseIdle
    /\ fallback_order = DefaultOrder
    /\ providers \in ThinkAvailable
    /\ active_provider = None
    /\ call_out = [p \in PROVIDERS |-> Throw]
    /\ call_ret = NoCall
    /\ retried = {}
    /\ \E tm \in BOOLEAN, mems \in InitMemories : ThinkIdle(tm, mems)
    /\ StoreIdle
    /\ TaskIdle
    /\ ContIdle
    /\ RecentIdle

Next == ThinkStart \/ LLMIssue \/ LLMReturn \/ ToolIssue \/ ToolReturn

Spec == Init /\ [][Next]_vars

\* ProviderManager.call on every configuration.
InitProv ==
    ParseIdle /\ ProvInit /\ ThinkIdle(FALSE, <<>>) /\ StoreIdle /\ TaskIdle /\ ContIdle
    /\ RecentIdle
NextProv == Call /\ UNCHANGED <<pvars, recent_call, cvars, tvars, svars, kvars>>
SpecProv == InitProv /\ [][NextProv]_vars

\* _extract_tool_calls on every text.
InitParse ==
    /\ ParseInit
    /\ fallback_order = DefaultOrder
    /\ providers = {}
    /\ active_provider = None
    /\ call_out = [p \in PROVIDERS |-> Throw]
    /\ call_ret = NoCall
    /\ retried = {}
    /\ ThinkIdle(FALSE, <<>>)
    /\ StoreIdle
    /\ TaskIdle
    /\ ContIdle
    /\ RecentIdle
NextParse == Extract /\ UNCHANGED <<mvars, recent_call, cvars, tvars, svars, kvars>>
SpecParse == InitParse /\ [][NextParse]_vars

\* Memory.add any number of times on an empty store, then a fresh Memory.
InitMem ==
    /\ ParseIdle
    /\ fallback_order = DefaultOrder
    /\ providers = {}
    /\ active_provider = None
    /\ call_out = [p \in PROVIDERS |-> Throw]
    /\ call_ret = NoCall
    /\ retried = {}
    /\ ThinkIdle(FALSE, <<>>)
    /\ StoreIdle
    /\ TaskIdle
    /\ ContIdle
    /\ RecentIdle
NextMem == MemAdd \/ Reload
SpecMem == InitMem /\ [][NextMem]_vars

\* process_task_with_loop or process_task, called once on a fresh agent with
\* tools and one provider that may fail at any call.
InitTask ==
    /\ ParseIdle
    /\ fallback_order = DefaultOrder
    /\ providers = {"anthropic"}
    /\ active_provider = None
    /\ call_out = [p \in PROVIDERS |-> Throw]
    /\ call_ret = NoCall
    /\ retried = {}
    /\ ThinkIdle(TRUE, <<>>)
    /\ StoreIdle
    /\ TaskIdle
    /\ ContIdle
    /\ RecentIdle
NextTask ==
    \/ TaskStart \/ TaskAfterThink
    \/ ProcessTaskStart \/ ProcessTaskAfterThink
    \/ LLMIssue \/ LLMReturn \/ ToolIssue \/ ToolReturn
SpecTask == InitTask /\ [][NextTask]_vars

\* continuous_thinking, called once on a fresh agent with tools, one provider
\* that may fail at any call, and some task files waiting.
InitCont ==
    /\ ParseIdle
    /\ fallback_order = DefaultOrder
    /\ providers = {"anthropic"}
    /\ active_provider = None
    /\ call_out = [p \in PROVIDERS |-> Throw]
    /\ call_ret = NoCall
    /\ retried = {}
    /\ ThinkIdle(TRUE, <<>>)
    /\ StoreIdle
    /\ TaskIdle
    /\ c_pc = "off"
    /\ c_args = [interval |-> 0, duration |-> 0]
    /\ start_time = 0
    /\ wake_at = 0
    /\ tasks_dir \in SUBSET TaskFileNames
    /\ task_files = <<>>
    /\ cycle = 0
    /\ RecentIdle
NextCont ==
    \/ ContinuousStart \/ CycleAfterTask \/ CycleAfterThink \/ CycleWake \/ Tick
    \/ ProcessTaskAfterThink
    \/ LLMIssue \/ LLMReturn \/ ToolIssue \/ ToolReturn
SpecCont == InitCont /\ [][NextCont]_vars

\* Memory.recent, called on every log.
InitRecent ==
    /\ ParseIdle
    /\ fallback_order = DefaultOrder
    /\ providers = {}
    /\ active_provider = None
    /\ call_out = [p \in PROVIDERS |-> Throw]
    /\ call_ret = NoCall
    /\ retried = {}
    /\ \E log \in Logs : ThinkIdle(FALSE, log)
    /\ StoreIdle
    /\ TaskIdle
    /\ ContIdle
    /\ RecentIdle
NextRecent == RecentCall
SpecRecent == InitRecent /\ [][NextRecent]_vars

\* ================================================================ claims
\* ---- ProviderManager.call (checked under SpecProv)
\* Position k of the fallback order holds the first provider that is
\* available and whose call does not throw in the latest call.
Answers(k) ==
    /\ fallback_order[k] \in providers
    /\ call_out[fallback_order[k]] /= Throw

FirstAnswering(k) ==
    /\ Answers(k)
    /\ \A j \in 1..(k - 1) : ~Answers(j)

\* C1: if provider k is the first name of the fallback order that is
\* available and does not throw, call() returns exactly k's response text and
\* k's name, whatever the providers before or after it do.
C1_FirstAnsweringProviderWins ==
    call_ret.state = "called" =>
        \A k \in 1..Len(fallback_order) :
            FirstAnswering(k) =>
                /\ ~call_ret.raised
                /\ call_ret.response = call_out[fallback_order[k]]
                /\ call_ret.response = ReplyOf(fallback_order[k])
                /\ call_ret.provider = fallback_order[k]

\* C1 witness: the second of three names answers, after an available provider
\* that failed and before an unavailable one that would have answered.
C1_Witness ==
    /\ call_ret.state = "called"
    /\ Len(fallback_order) = 3
    /\ FirstAnswering(2)
    /\ fallback_order[1] \in providers
    /\ fallback_order[3] \in PROVIDERS \ providers
    /\ call_out[fallback_order[3]] /= Throw
    /\ call_ret.provider = fallback_order[2]

\* C2: if no provider of the fallback order is both available and answering
\* (empty available set and empty order included), call() raises the
\* provider-exhaustion error and returns no (response, provider) pair.
C2_ExhaustionRaises ==
    (call_ret.state = "called" /\ \A k \in 1..Len(fallback_order) : ~Answers(k)) =>
        /\ call_ret.raised
        /\ call_ret.provider = None
        /\ call_ret.response = NoProviderError

\* C2 witness: two available providers were tried, both threw, call() raised.
C2_Witness ==
    /\ call_ret.state = "called"
    /\ call_ret.raised
    /\ Len(call_ret.attempts) >= 2
    /\ \A k \in 1..Len(fallback_order) : ~Answers(k)

\* ---- _extract_tool_calls (checked under SpecParse)
RequestA == JsonValue(CallA)
RequestB == JsonValue(CallB)

\* The requests a text put together from segs asks for, read off the segments.
RECURSIVE Requested(_)
Requested(segs) ==
    IF segs = <<>> THEN <<>>
    ELSE (IF Head(segs) = BlockA THEN <<RequestA>>
          ELSE IF Head(segs) = BlockB THEN <<RequestB>>
          ELSE <<>>) \o Requested(Tail(segs))

\* A text of prose, stray closing tags, valid blocks, blocks whose content is
\* no JSON and blocks whose JSON lacks a key: every opening tag opens a block.
WellDelimited(segs) ==
    \A i \in 1..Len(segs) :
        segs[i] \in {BlockA, BlockB, <<Prose>>, <<CLOSE>>} \cup InvalidJsonBlocks \cup WrongShapeBlocks

\* C3: no block gives no request, N valid blocks give exactly their N requests
\* in document order, and blocks with invalid JSON change nothing about the
\* requests of the valid blocks around them.
C3_ValidBlocksInOrder ==
    (p_result.state = "done" /\ WellDelimited(p_segs)) =>
        /\ ~p_result.raised
        /\ p_result.calls = Requested(p_segs)

\* C3 witness: two valid blocks around a block of invalid JSON gave exactly
\* the two requests, in order.
C3_Witness ==
    /\ p_result.state = "done"
    /\ Len(p_segs) = 3
    /\ p_segs[1] = BlockB
    /\ p_segs[2] \in InvalidJsonBlocks
    /\ p_segs[3] = BlockA
    /\ p_result.calls = <<RequestB, RequestA>>

\* C4: a block whose content is not an object with a tool identifier and a
\* parameter mapping is dropped and extraction returns normally: the parser
\* never raises, and every request it returns is such an object.
C4_MalformedBlocksDropped ==
    p_result.state = "done" =>
        /\ ~p_result.raised
        /\ \A i \in 1..Len(p_result.calls) :
            /\ p_result.calls[i].type = "dict"
            /\ {"tool", "params"} \subseteq p_result.calls[i].members
            /\ p_result.calls[i].mapping

\* ---- think() (checked under Spec)
Finished == pc \in {"returned", "raised"}

\* C5: one think() makes at most max_tool_iterations coordinator calls and
\* runs at most max_tool_iterations tool batches.
C5_RoundTripsBounded ==
    pc /= "idle" =>
        /\ llm_calls <= args.max_tool_iterations
        /\ batches <= args.max_tool_iterations

\* C5 witness: a budget of two fully used, two model calls and two batches.
C5_Witness ==
    /\ Finished
    /\ args.max_tool_iterations = 2
    /\ llm_calls = 2
    /\ batches = 2

\* C6: with max_tool_iterations = 0 think() returns the first model reply and
\* executes no tool.
C6_ZeroBudgetReturnsFirstReply ==
    (Finished /\ args.max_tool_iterations = 0) =>
        /\ ret.kind = "return"
        /\ Len(conversation_history) >= 1
        /\ ret.value = conversation_history[1]
        /\ tools_run = 0

\* The replies that hold no valid tool call: no block, or malformed blocks only.
RepliesWithoutCall == {R_plain, R_bad, R_num}

\* C7: when the coordinator answers with a reply that holds no valid tool
\* call, think() returns that reply verbatim (and so runs no tool and makes no
\* further model call).
C7_NoCallsReturnsReply ==
    (Finished /\ call_ret.state = "called" /\ ~call_ret.raised
        /\ call_ret.response \in RepliesWithoutCall) =>
        /\ ret.kind = "return"
        /\ ret.at = "no_tool_calls"
        /\ ret.value = call_ret.response

\* C8: when the coordinator fails on any model turn, think() does not raise:
\* it ends at once, returning a text that starts with the [ERROR] sentinel.
C8_ProviderFailureIsErrorText ==
    (call_ret.state = "called" /\ call_ret.raised) =>
        /\ pc = "returned"
        /\ ret.kind = "return"
        /\ ret.at = "llm_failed"
        /\ ret.value = <<ErrorPrefix>> \o NoProviderError

\* C8 witness: the coordinator failed on the model turn after a tool batch.
C8_Witness ==
    /\ call_ret.state = "called"
    /\ call_ret.raised
    /\ batches >= 1
    /\ llm_calls = 2
    /\ pc = "returned"

\* C9: when the counter reaches max_tool_iterations after a batch (the model
\* was still asking for tools), think() stops there and returns the reply of
\* its last model call, not an error text and not an exception.
C9_CeilingReturnsLastReply ==
    (pc /= "idle" /\ batches >= 1 /\ tool_iteration = args.max_tool_iterations) =>
        /\ pc = "returned"
        /\ ret.kind = "return"
        /\ ret.at = "max_iterations"
        /\ ret.value = conversation_history[Len(conversation_history)]
        /\ ret.value = call_ret.response
        /\ ret.value[1] /= ErrorPrefix
        /\ tool_calls /= <<>>

\* C9 witness: the second of two allowed batches has run and think() returned.
C9_Witness ==
    /\ pc = "returned"
    /\ ret.at = "max_iterations"
    /\ args.max_tool_iterations = 2
    /\ batches = 2
    /\ Len(conversation_history) = 2

IsMapping(c) == c.mapping

\* C10: the calls of a batch go to the gateway one at a time in the order
\* parsed; never are two tool calls, or a tool call and a model call, out at
\* once, and a model call goes out only when every call of the batch is done.
C10_SequentialInOrder ==
    /\ llm_inflight + tool_inflight <= 1
    /\ pc = "await_llm" => (tool_inflight = 0 /\ Len(tool_results) = Len(tool_calls))
    /\ pc \in {"next_tool", "await_tool"} =>
        /\ executed = SelectSeq(SubSeq(tool_calls, 1, IF pc = "await_tool" THEN tool_idx ELSE tool_idx - 1), IsMapping)
        /\ Len(tool_results) = tool_idx - 1
    /\ \A i \in 1..Len(tool_results) : i <= Len(tool_calls) => tool_results[i].tool = tool_calls[i].tool

\* C10 witness: in the second batch the second of two calls is out, alone.
C10_Witness ==
    /\ pc = "await_tool"
    /\ batches = 1
    /\ Len(tool_calls) = 2
    /\ tool_idx = 2
    /\ tool_inflight = 1
    /\ llm_inflight = 0
    /\ executed = tool_calls
    /\ tool_calls[1] /= tool_calls[2]

\* The latest batch is over and nothing has replaced its outcomes yet.
BatchEnded ==
    /\ batches >= 1
    /\ current_prompt.kind = "tool_results"
    /\ \/ pc \in {"call_llm", "await_llm"}
       \/ pc = "returned" /\ ret.at = "max_iterations"

\* C11: a failed tool call does not end its batch. When a batch is over every
\* call parsed from the reply has an outcome, in order, every mapping among them
\* went to the gateway, a failed call's outcome carries success = false and its
\* error, and the model call that follows is handed all of them.
C11_FailureDoesNotAbortBatch ==
    /\ BatchEnded =>
        /\ Len(tool_results) = Len(tool_calls)
        /\ executed = SelectSeq(tool_calls, IsMapping)
        /\ \A i \in 1..Len(tool_results) :
            /\ tool_results[i].tool = tool_calls[i].tool
            /\ tool_results[i].success
                => tool_results[i].payload = ToolResult(tool_calls[i].tool)
            /\ ~tool_results[i].success
                => /\ tool_results[i].payload \in {ToolError(tool_calls[i].tool), TypeError}
                   /\ current_prompt.results[i] = <<tool_calls[i].tool, tool_results[i].payload>>
    /\ (pc = "await_llm" /\ batches >= 1) => sent.user = ResultsPrompt(tool_results)

\* C11 witness: the first of two calls failed at the gateway, the second was
\* still executed and succeeded, and both outcomes are out to the model.
C11_Witness ==
    /\ pc = "await_llm"
    /\ batches = 1
    /\ Len(tool_calls) = 2
    /\ Len(tool_results) = 2
    /\ ~tool_results[1].success
    /\ tool_results[1].payload = ToolError(tool_calls[1].tool)
    /\ tool_results[2].success
    /\ Len(executed) = 2
    /\ sent.user.results = <<<<tool_calls[1].tool, ToolError(tool_calls[1].tool)>>,
                             <<tool_calls[2].tool, ToolResult(tool_calls[2].tool)>>>>

\* C12: every outcome of a batch, success or failure, is recorded in memory:
\* since the batch began the log has grown by one tool_call entry per outcome.
C12_EveryOutcomeRecorded ==
    (pc \in {"next_tool", "await_tool"} \/ BatchEnded) =>
        /\ Len(memories) = batch_mem_start + Len(tool_results)
        /\ \A i \in (batch_mem_start + 1)..Len(memories) : memories[i].kind = "tool_call"

\* C13: a batch, failed calls included, is followed by another model call
\* unless the budget is used up; that call's prompt holds one outcome per call
\* of the batch in execution order, and the tool-iteration counter has gone up
\* by exactly one per batch.
C13_NextPromptCarriesOutcomes ==
    /\ tool_iteration = batches
    /\ (Finished /\ batches >= 1 /\ llm_calls = batches)
        => tool_iteration >= args.max_tool_iterations
    /\ (pc = "await_llm" /\ batches >= 1) =>
        /\ llm_calls = batches + 1
        /\ sent.user.kind = "tool_results"
        /\ Len(sent.user.results) = Len(tool_calls)
        /\ \A i \in 1..Len(tool_calls) :
            sent.user.results[i] = <<tool_calls[i].tool, tool_results[i].payload>>

\* C13 witness: the first reply asked for one tool, the tool failed, and the
\* second model call is out with the error-bearing outcome in its prompt.
C13_Witness ==
    /\ pc = "await_llm"
    /\ llm_calls = 2
    /\ tool_iteration = 1
    /\ conversation_history = <<R_one>>
    /\ Len(tool_calls) = 1
    /\ ~tool_results[1].success
    /\ sent.user.results = <<<<tool_calls[1].tool, ToolError(tool_calls[1].tool)>>>>

\* The names of the fallback order that are in the available set, in order.
AvailableInOrder == SelectSeq(fallback_order, LAMBDA n : n \in providers)

\* C20: ProviderManager.call attempts providers strictly in fallback order and
\* only names of the available set: the attempts are a prefix of the available
\* names of the order, every attempt but the last failed, and the run of
\* attempts ends with the first provider that answers (or, when none answers,
\* with the last available name).
C20_AttemptsInFallbackOrder ==
    call_ret.state = "called" =>
        LET a == call_ret.attempts
        IN  /\ Len(a) <= Len(AvailableInOrder)
            /\ \A i \in 1..Len(a) : a[i] = AvailableInOrder[i] /\ a[i] \in providers
            /\ \A i \in 1..(Len(a) - 1) : call_out[a[i]] = Throw
            /\ call_ret.raised => a = AvailableInOrder
            /\ ~call_ret.raised =>
                /\ Len(a) >= 1
                /\ call_out[a[Len(a)]] /= Throw
                /\ call_ret.provider = a[Len(a)]

\* C20 witness: the first name of the order is not available, the second
\* failed, the third answered, and nothing else was attempted.
C20_Witness ==
    /\ call_ret.state = "called"
    /\ ~call_ret.raised
    /\ Len(fallback_order) = 3
    /\ fallback_order[1] \notin providers
    /\ call_ret.attempts = <<fallback_order[2], fallback_order[3]>>
    /\ fallback_order[2] /= fallback_order[3]

\* C20 witness of the early return: an available provider stands after the
\* answering one and was not attempted.
C20_WitnessStops ==
    /\ call_ret.state = "called"
    /\ ~call_ret.raised
    /\ Len(fallback_order) = 3
    /\ call_ret.attempts = <<fallback_order[1]>>
    /\ {fallback_order[2], fallback_order[3]} \subseteq providers \ {fallback_order[1]}

\* C19: a fresh Memory built after N calls of Memory.add on an empty store
\* holds the same N entries in the same order, each with the timestamp, kind,
\* content and importance it was added with; the load does not raise.
C19_MemoryRoundTrip ==
    reloaded.state = "loaded" =>
        /\ ~reloaded.raised
        /\ Len(reloaded.memories) = Len(memories)
        /\ \A i \in 1..Len(memories) :
            /\ reloaded.memories[i].timestamp = memories[i].timestamp
            /\ reloaded.memories[i].kind = memories[i].kind
            /\ reloaded.memories[i].content = memories[i].content
            /\ reloaded.memories[i].importance = memories[i].importance

\* C19 witness: two entries, the first with a line feed in its content, the
\* second with a backslash followed by n, came back from the file as added.
C19_Witness ==
    /\ reloaded.state = "loaded"
    /\ Len(memories) = 2
    /\ memories[1].content = <<"a", NL, "{", "}">>
    /\ memories[2].content = <<BS, "n">>
    /\ memories[1].timestamp /= memories[2].timestamp
    /\ memories[1].kind /= memories[2].kind
    /\ reloaded.memories = memories

\* What the header of the task file makes the run start with.
StartIteration == IterationOf(ParseFrontmatter(k_args.task_text).metadata).n

IsIterationNote(m) == m.kind = "iteration"

\* C14: the task loop halts at the first outer iteration whose text contains
\* the literal TASK_DONE: the run ends with status complete, iterations equal
\* to that iteration's number and no think() call after it; a text with only
\* a truncated or case-altered marker never ends the loop.
C14_HaltsAtFirstMarker ==
    /\ \A i \in 1..Len(memories) :
        memories[i].kind = "iteration" => ~Contains(memories[i].content, Marker)
    /\ (k_pc = "thinking" /\ pc \in {"returned", "raised"} /\ ret.kind = "return"
            /\ Contains(ret.value, Marker))
        => think_calls = Len(SelectSeq(memories, IsIterationNote)) + 1
    /\ k_pc = "done" =>
        /\ pc = "idle"
        /\ (k_ret.value.status = "complete") = Contains(k_ret.value.result, Marker)
        /\ k_ret.value.status = "complete" =>
            /\ k_ret.value.iterations = iteration
            /\ think_calls = iteration - StartIteration + 1
            /\ think_calls = Len(SelectSeq(memories, IsIterationNote)) + 1

\* C14 witness: the first iteration answered with the truncated and the
\* case-altered marker only, the second with TASK_DONE, and the run ended
\* there although a third iteration was allowed.
C14_Witness ==
    /\ k_pc = "done"
    /\ k_args.max_iterations = 3
    /\ k_ret.value.status = "complete"
    /\ k_ret.value.iterations = 2
    /\ think_calls = 2
    /\ \E i \in 1..Len(memories) :
        /\ memories[i].kind = "iteration"
        /\ Contains(memories[i].content, "TASK_DON")
        /\ Contains(memories[i].content, "task_done")

\* A run of process_task_with_loop is over, by a return or by an exception.
TaskOver == k_pc \in {"done", "raised"}

\* process_task_with_loop was called.
InTaskLoop == k_pc \in {"thinking", "done", "raised"}

\* C15: for a task without metadata and max_iterations >= 1, when no text of
\* the run holds the marker, think() is called exactly max_iterations times
\* and the run ends with status max_iterations_reached and iterations equal to
\* max_iterations.
C15_RunsToMaxIterations ==
    (InTaskLoop /\ ParseFrontmatter(k_args.task_text).metadata = <<>>) =>
        /\ think_calls <= k_args.max_iterations
        /\ (TaskOver /\ k_args.max_iterations >= 1 /\ ~Contains(result_text, Marker)) =>
            /\ k_pc = "done"
            /\ think_calls = k_args.max_iterations
            /\ k_ret.value.status = "max_iterations_reached"
            /\ k_ret.value.iterations = k_args.max_iterations

\* C15 witness: a task without a header ran three iterations without the
\* marker and ended at the maximum.
C15_Witness ==
    /\ k_pc = "done"
    /\ k_args = [task_text |-> T_plain, max_iterations |-> 3]
    /\ think_calls = 3
    /\ k_ret.value.status = "max_iterations_reached"
    /\ k_ret.value.iterations = 3
    /\ ~Contains(k_ret.value.result, Marker)

\* C16: whatever the task text and max_iterations, a run of
\* process_task_with_loop that is over has persisted exactly one result
\* artifact.
C16_OneArtifactPerRun == TaskOver => Len(results_dir) = 1

\* The last think() of the run ended because no provider answered.
LastThinkExhausted ==
    /\ think_calls >= 1
    /\ ret.kind = "return"
    /\ ret.at = "llm_failed"
    /\ call_ret.raised

\* C17: provider exhaustion inside a task run raises nothing: think() never
\* raises into the loop, and a run whose last think() found no provider ends
\* by returning a result whose text is the [ERROR] text, with the artifact
\* written, the result entry appended to memory and the state saved.
C17_ExhaustionIsResultText ==
    /\ k_pc = "thinking" => pc /= "raised"
    /\ (TaskOver /\ LastThinkExhausted) =>
        /\ k_pc = "done"
        /\ k_ret.kind = "return"
        /\ k_ret.value.result = <<ErrorPrefix>> \o NoProviderError
        /\ k_ret.value.status = "max_iterations_reached"
        /\ Len(results_dir) = 1
        /\ results_dir[1] = [name |-> task_id \o <<".json">>, data |-> k_ret.value]
        /\ memories[Len(memories)].kind = "result"
        /\ memory_file = FileOf(memories)
        /\ agent_state.tasks_completed = 1
        /\ state_file = agent_state

\* C17 witness: both iterations of a run found no provider; the run returned
\* the error text and wrote its artifact.
C17_Witness ==
    /\ k_pc = "done"
    /\ LastThinkExhausted
    /\ think_calls = 2
    /\ llm_calls = 1
    /\ k_ret.value.result[1] = ErrorPrefix
    /\ Len(results_dir) = 1
    /\ \E i \in 1..Len(memories) :
        memories[i].kind = "iteration" /\ Contains(memories[i].content, ErrorPrefix)

IsPrefix(a, b) == Len(a) <= Len(b) /\ SubSeq(b, 1, Len(a)) = a

\* C18: the memory log is append-only: whatever step process_task,
\* process_task_with_loop or the think() inside them takes, the entries held
\* before it are a prefix of the entries held after it, in the list and in
\* the file.
C18_MemoryAppendOnly ==
    [][IsPrefix(memories, memories') /\ IsPrefix(memory_file, memory_file')]_vars

\* C18 witness: a run has added a task entry, a tool_call entry, an iteration
\* note and a result entry, in that order, and the file holds their lines.
C18_Witness ==
    /\ k_pc = "done"
    /\ Len(memories) = 4
    /\ memories[1].kind = "task"
    /\ memories[2].kind = "tool_call"
    /\ memories[3].kind = "iteration"
    /\ memories[4].kind = "result"
    /\ memory_file = FileOf(memories)
    /\ MemoryLoad(memory_file).memories = memories

\* The providers of the latest call() that raised in it.
FailedInCall == {call_ret.attempts[i] : i \in {j \in 1..Len(call_ret.attempts) :
                                                 call_out[call_ret.attempts[j]] = Throw}}

\* C21: a call() leaves the available set and the fallback order as they
\* were, whether it returns or raises, and the call after it again attempts
\* the available names of the order from the first one on, the providers that
\* failed before included, each in its configured position.
C21_CallKeepsProviders ==
    [][call_ret'.state = "called" =>
        /\ providers' = providers
        /\ fallback_order' = fallback_order
        /\ FailedInCall \subseteq providers'
        /\ Len(call_ret'.attempts) <= Len(AvailableInOrder)
        /\ \A i \in 1..Len(call_ret'.attempts) : call_ret'.attempts[i] = AvailableInOrder[i]
        /\ call_ret'.raised => call_ret'.attempts = AvailableInOrder]_vars

\* C21 witness: the first provider of the order failed in one call, a later
\* one answered, and in the call after it the first provider was attempted
\* again and answered.
C21_Witness ==
    /\ call_ret.state = "called"
    /\ ~call_ret.raised
    /\ Len(AvailableInOrder) >= 2
    /\ call_ret.attempts = <<AvailableInOrder[1]>>
    /\ retried = {AvailableInOrder[1]}

\* C26: active_provider names the provider of the most recent successful
\* answer: a call() that returns sets it to the answering provider and a
\* call() in which every provider fails leaves it as it was.
C26_ActiveProviderAnswered ==
    [][call_ret'.state = "called" =>
        IF call_ret'.raised
        THEN active_provider' = active_provider
        ELSE active_provider' = call_ret'.provider]_vars

\* C24: at every model call of think() the system prompt handed to the
\* coordinator holds the most recent RecentN memory entries as they stand at
\* that moment, tool_call entries written earlier in the invocation included.
C24_SystemPromptIsCurrent ==
    pc = "await_llm" => sent.system = RecentMemoryLines(memories)

ToolsDisabled == ~(args.allow_tools /\ tool_manager)

\* C28: a think() with tools disabled (allow_tools false or no tool manager)
\* that is over has made exactly one coordinator call, executed no tool,
\* written no tool_call entry, and returned the reply as it came.
C28_ToolsDisabledOneCall ==
    (Finished /\ ToolsDisabled) =>
        /\ llm_calls = 1
        /\ tools_run = 0
        /\ \A i \in 1..Len(memories) : memories[i].kind /= "tool_call"
        /\ ~call_ret.raised => ret = ReturnReply(call_ret.response)

\* C22: every result process_task_with_loop returns has status complete or
\* max_iterations_reached, complete exactly when the stored result text
\* contains TASK_DONE; a run ending without the marker stores the text the
\* last think() returned (the empty text when think() was never called).
C22_StatusMatchesMarker ==
    k_pc = "done" =>
        /\ k_ret.kind = "return"
        /\ k_ret.value.status \in {"complete", "max_iterations_reached"}
        /\ (k_ret.value.status = "complete") <=> Contains(k_ret.value.result, Marker)
        /\ results_dir[Len(results_dir)].data = k_ret.value
        /\ k_ret.value.result = IF think_calls = 0 THEN <<>> ELSE ret.value

\* C22 witness: two iterations without the marker; the run ended at the
\* maximum and stored the second text, which holds a near miss of the marker.
C22_Witness ==
    /\ k_pc = "done"
    /\ k_ret.value.status = "max_iterations_reached"
    /\ think_calls = 2
    /\ k_ret.value.result = R_near
    /\ ret.value = R_near

\* The iteration value the header of each task file carries (1 without one).
HeaderIteration ==
    CASE k_args.task_text = T_resume -> 2
      [] k_args.task_text = T_late -> 7
      [] k_args.task_text = T_zero -> 0
      [] OTHER -> 1

PositivePart(n) == IF n > 0 THEN n ELSE 0

\* C23: the outer counter starts at the header's iteration value (1 without
\* one), think() is called only while iteration <= max_iterations, the
\* counter advances by one per think() without the marker, and a run resumed
\* at s that never sees the marker calls think() max(0, max_iterations - s + 1)
\* times.
C23_ResumedRunCallCount ==
    /\ k_pc = "thinking" =>
        /\ iteration = HeaderIteration + think_calls - 1
        /\ iteration <= k_args.max_iterations
        /\ Len(SelectSeq(memories, IsIterationNote)) = think_calls - 1
    /\ (k_pc = "done" /\ k_ret.value.status = "max_iterations_reached") =>
        /\ think_calls = PositivePart(k_args.max_iterations - HeaderIteration + 1)
        /\ iteration = HeaderIteration + think_calls
        /\ iteration > k_args.max_iterations
        /\ Len(SelectSeq(memories, IsIterationNote)) = think_calls

\* C23 witness: a run resumed at iteration 2 with max_iterations 3 ended
\* without the marker after two think() calls.
C23_Witness ==
    /\ k_pc = "done"
    /\ k_args = [task_text |-> T_resume, max_iterations |-> 3]
    /\ k_ret.value.status = "max_iterations_reached"
    /\ think_calls = 2
    /\ iteration = 4

\* C29: the iterations a result of process_task_with_loop reports is the
\* number of the last outer iteration that ran and never exceeds
\* max_iterations, whatever the starting iteration and max_iterations.
C29_IterationsWithinMax ==
    k_pc = "done" =>
        /\ k_ret.value.iterations <= k_args.max_iterations
        /\ think_calls >= 1 => k_ret.value.iterations = HeaderIteration + think_calls - 1

\* C25: continuous_thinking tests its duration budget only between cycles: it
\* stops only when its sleep is over and more than duration seconds have
\* passed since start_time; a cycle that has started goes on through its task
\* processing, model calls and tool executions whatever the clock says; and
\* once more than a positive duration has passed, the step that leaves the
\* sleep stops the loop.
C25_BudgetCheckedBetweenCycles ==
    [][/\ (c_pc' = "stopped" /\ c_pc /= "stopped") =>
            /\ c_pc = "sleep"
            /\ clock >= wake_at
            /\ c_args.duration > 0
            /\ clock - start_time > c_args.duration
       /\ c_pc \in {"task", "think"} => c_pc' \in {"task", "think", "sleep"}
       /\ (c_pc = "sleep" /\ c_pc' /= "sleep" /\ c_args.duration > 0
               /\ clock - start_time > c_args.duration)
           => c_pc' = "stopped"
       /\ (c_pc = "sleep" /\ c_pc' \in {"task", "think"}) =>
            /\ cycle' = cycle + 1
            /\ c_args.duration = 0 \/ clock - start_time <= c_args.duration]_vars

\* C25 witness: a run with duration 1 whose first cycle processed a task file
\* and ran a tool; the clock passed the budget before the cycle's thought was
\* stored, the cycle was completed, and the loop stopped after its sleep.
C25_Witness ==
    /\ c_pc = "stopped"
    /\ c_args.duration = 1
    /\ start_time = 0
    /\ cycle = 1
    /\ tools_run >= 1
    /\ Len(results_dir) >= 1
    /\ \E i \in 1..Len(memories) :
        memories[i].kind = "thought" /\ memories[i].timestamp = IsoFormat(2)

\* C30: result artifacts written by distinct runs of process_task carry
\* distinct names, so that none overwrites another.
C30_ArtifactsNeverOverwritten ==
    \A i, j \in 1..Len(results_dir) :
        results_dir[i].name = results_dir[j].name => i = j

\* The smaller of two numbers.
Smaller(a, b) == IF a < b THEN a ELSE b

\* C33: Memory.recent(n, kind) returns the last min(n, m) entries of the log
\* filtered by kind (m entries), in append order: never more than n entries,
\* and none for n = 0.
C33_RecentIsLastN ==
    recent_call.state = "called" =>
        LET f == IF recent_call.kind = NoKind THEN memories
                 ELSE SelectSeq(memories, LAMBDA m : m.kind = recent_call.kind)
            k == Smaller(recent_call.n, Len(f))
        IN  /\ Len(recent_call.result) <= recent_call.n
            /\ recent_call.result = SubSeq(f, Len(f) - k + 1, Len(f))

C32_CallsWithinBudget ==
    InTaskLoop =>
        /\ think_calls <= k_args.max_iterations
        /\ llm_calls <= args.max_tool_iterations

====
